---- MODULE Spec2Model ----
(***************************************************************************)
(* Course catalog portal (src/app.py): the JSON catalog file, the store    *)
(* helpers load_courses / save_courses and the Flask handlers index,       *)
(* course_catalog, course_details, add_course and remove_course.           *)
(*                                                                         *)
(* Three specifications are given over the same handler code:              *)
(*   Spec      one request at a time, each handler run to completion;      *)
(*   SpecE2E   one client running add, catalog, remove, catalog, details;  *)
(*   SpecConc  two request threads whose file reads and writes interleave. *)
(***************************************************************************)
EXTENDS Naturals, Sequences, FiniteSets, TLC

\* Bound on the number of records in the catalog file (the code has none).
MaxCourses == 2

VARIABLES
    file,       \* the file COURSE_FILE on disk
    resp,       \* the last request handled and the response it produced
    e2e,        \* SpecE2E: the scripted client's position and the form it posted
    pc,         \* SpecConc: each request thread's position in its handler
    req,        \* SpecConc: each thread's request
    locals,     \* SpecConc: each thread's local variables
    out,        \* SpecConc: each thread's response
    overlap     \* SpecConc: some thread read the file while another was
                \* between its read and the end of its write

vars == <<file, resp, e2e, pc, req, locals, out, overlap>>

(***************************************************************************)
(* Request inputs.  A form field is <<>> when the request omits it and     *)
(* <<v>> when it carries the string v.                                     *)
(***************************************************************************)
NameInputs == {<<>>, <<" ">>, <<"Algo">>}
CodeInputs == {<<>>, <<"">>, <<"c1">>, <<"c2">>}
InstructorInputs == {<<>>, <<"">>, <<"Ann">>}

NoOptionals ==
    [semester |-> <<>>, schedule |-> <<>>, classroom |-> <<>>,
     prerequisites |-> <<>>, grading |-> <<>>, description |-> <<>>]

SomeOptionals ==
    [semester |-> <<"Fall">>, schedule |-> <<"">>, classroom |-> <<>>,
     prerequisites |-> <<"c1">>, grading |-> <<>>, description |-> <<"">>]

OptionalInputs == {NoOptionals, SomeOptionals}

MakeForm(n, c, i, o) ==
    [name |-> n, code |-> c, instructor |-> i,
     semester |-> o.semester, schedule |-> o.schedule,
     classroom |-> o.classroom, prerequisites |-> o.prerequisites,
     grading |-> o.grading, description |-> o.description]

Forms ==
    {MakeForm(n, c, i, o) : n \in NameInputs, c \in CodeInputs,
                            i \in InstructorInputs, o \in OptionalInputs}

EmptyForm == MakeForm(<<>>, <<>>, <<>>, NoOptionals)

\* Path parameters of /course/<code> and /remove/<code>.
Codes == {"c1", "c2"}

(***************************************************************************)
(* The catalog file: absent, text that json.load rejects, or the JSON      *)
(* array that json.dump wrote.  A list of dicts of strings survives the    *)
(* dump/load round trip unchanged, so the array is kept as the list.       *)
(***************************************************************************)
MissingFile == [kind |-> "missing", raw |-> "", data |-> <<>>]

Garbage(text) == [kind |-> "garbage", raw |-> text, data |-> <<>>]

CorruptTexts == {"", "{oops"}

json_dump(list) == [kind |-> "json", raw |-> "[...]", data |-> list]

json_load(f) == f.data

\* ParseError, were the decode error caught and an empty list loaded instead.
ParseErrorSwallowed(f) == FALSE

\* json.load raises JSONDecodeError on a file that exists and is not JSON.
ParseError(f) == f.kind = "garbage"

load_courses(f) == IF f.kind = "missing" THEN <<>> ELSE json_load(f)

\* AppendCourse, were the new course inserted at the front.
PrependCourse(list, data) == <<data>> \o list

\* AppendCourse, were the loaded list dropped and only the new course kept.
ReplaceCourses(list, data) == <<data>>

AppendCourse(list, data) == Append(list, data)

save_courses(f, data) == json_dump(AppendCourse(load_courses(f), data))

(***************************************************************************)
(* Pure parts of the handlers.                                             *)
(***************************************************************************)
\* find, were the scan to keep the last match instead of the first.
find_last(list, code) ==
    IF \E i \in 1..Len(list) : list[i].code = code
    THEN LET i == CHOOSE i \in 1..Len(list) :
                    /\ list[i].code = code
                    /\ \A j \in (i + 1)..Len(list) : list[j].code # code
         IN  <<list[i]>>
    ELSE <<>>

\* next((course for course in courses if course['code'] == code), None),
\* as <<>> for None and <<course>> for a hit.
find(list, code) ==
    IF \E i \in 1..Len(list) : list[i].code = code
    THEN LET i == CHOOSE i \in 1..Len(list) :
                    /\ list[i].code = code
                    /\ \A j \in 1..(i - 1) : list[j].code # code
         IN  <<list[i]>>
    ELSE <<>>

\* remove_filter, were only the record the lookup found dropped.
remove_first_match(list, code) ==
    IF \E i \in 1..Len(list) : list[i].code = code
    THEN LET i == CHOOSE i \in 1..Len(list) :
                    /\ list[i].code = code
                    /\ \A j \in 1..(i - 1) : list[j].code # code
         IN  SubSeq(list, 1, i - 1) \o SubSeq(list, i + 1, Len(list))
    ELSE list

\* [course for course in courses if course['code'] != code]
remove_filter(list, code) ==
    LET Keep(course) == course.code # code IN SelectSeq(list, Keep)

\* request.form.get(key) is None for an omitted field; `not v` is true of
\* None and of the empty string only.
falsy(v) == v = <<>> \/ v[1] = ""

\* request.form.get(key, default)
form_get(form, key, default) ==
    IF form[key] = <<>> THEN default ELSE form[key][1]

\* missing_fields, were the checks chained with elif: first violation only.
missing_fields_first_only(form) ==
    IF falsy(form.name) THEN <<"Course Name">>
    ELSE IF falsy(form.code) THEN <<"Course Code">>
         ELSE IF falsy(form.instructor) THEN <<"Instructor">> ELSE <<>>

missing_fields(form) ==
    (IF falsy(form.name) THEN <<"Course Name">> ELSE <<>>)
    \o (IF falsy(form.code) THEN <<"Course Code">> ELSE <<>>)
    \o (IF falsy(form.instructor) THEN <<"Instructor">> ELSE <<>>)

\* course_data, were every optional field defaulted to the empty string.
course_data_blank_defaults(form) ==
    [name |-> form.name[1],
     code |-> form.code[1],
     instructor |-> form.instructor[1],
     semester |-> form_get(form, "semester", ""),
     schedule |-> form_get(form, "schedule", ""),
     classroom |-> form_get(form, "classroom", ""),
     prerequisites |-> form_get(form, "prerequisites", ""),
     grading |-> form_get(form, "grading", ""),
     description |-> form_get(form, "description", "")]

course_data(form) ==
    [name |-> form.name[1],
     code |-> form.code[1],
     instructor |-> form.instructor[1],
     semester |-> form_get(form, "semester", ""),
     schedule |-> form_get(form, "schedule", ""),
     classroom |-> form_get(form, "classroom", ""),
     prerequisites |-> form_get(form, "prerequisites", "None"),
     grading |-> form_get(form, "grading", "Not specified"),
     description |-> form_get(form, "description", "No description provided")]

(***************************************************************************)
(* Responses.  span is the status of the handler's own span: UNSET unless  *)
(* set_status(ERROR) ran or an exception left the `with` block.            *)
(***************************************************************************)
NoFlash == [cat |-> "none", msg |-> "", args |-> <<>>]

Flash(cat, msg, args) == [cat |-> cat, msg |-> msg, args |-> args]

Response(op, code, form, status, target, flash, span, body) ==
    [op |-> op, code |-> code, form |-> form, status |-> status,
     target |-> target, flash |-> flash, span |-> span, body |-> body]

NoResponse == Response("none", "", EmptyForm, "none", "", NoFlash, "UNSET", <<>>)

\* An exception that no handler catches: the `with` block records it on the
\* span and Flask answers 500.
Unhandled(op, code, form) ==
    Response(op, code, form, "error500", "JSONDecodeError", NoFlash, "ERROR", <<>>)

index_response ==
    Response("index", "", EmptyForm, "page", "index.html", NoFlash, "UNSET", <<>>)

course_catalog_response(f) ==
    IF ParseError(f)
    THEN Unhandled("catalog", "", EmptyForm)
    ELSE Response("catalog", "", EmptyForm, "page", "course_catalog.html",
                  NoFlash, "UNSET", load_courses(f))

\* Status the lookup handlers leave on their span when the code is absent.
lookup_failed_span == "UNSET"

not_found(op, code) ==
    Response(op, code, EmptyForm, "redirect", "course_catalog",
             Flash("error", "No course found with code", <<code>>),
             lookup_failed_span, <<>>)

course_details_response(f, code) ==
    IF ParseError(f)
    THEN Unhandled("details", code, EmptyForm)
    ELSE LET course == find(load_courses(f), code) IN
         IF course = <<>>
         THEN not_found("details", code)
         ELSE Response("details", code, EmptyForm, "page", "course_details.html",
                       NoFlash, "UNSET", course)

add_course_form_response ==
    Response("add_form", "", EmptyForm, "page", "add_course.html", NoFlash,
             "UNSET", <<>>)

validation_failure(form) ==
    Response("add", "", form, "redirect", "add_course",
             Flash("error", "Error: The following fields are required:",
                   missing_fields(form)),
             "ERROR", <<>>)

add_course_success(form) ==
    Response("add", "", form, "redirect", "course_catalog",
             Flash("success", "added successfully", <<form.name[1]>>),
             "UNSET", <<>>)

add_course_response(f, form) ==
    IF missing_fields(form) # <<>>
    THEN validation_failure(form)
    ELSE IF ParseError(f)
         THEN Unhandled("add", "", form)
         ELSE add_course_success(form)

add_course_file(f, form) ==
    IF missing_fields(form) # <<>> \/ ParseError(f)
    THEN f
    ELSE save_courses(f, course_data(form))

remove_course_success(code, course) ==
    Response("remove", code, EmptyForm, "redirect", "course_catalog",
             Flash("success", "removed successfully", <<course.name>>),
             "UNSET", <<>>)

remove_course_response(f, code) ==
    IF ParseError(f)
    THEN Unhandled("remove", code, EmptyForm)
    ELSE LET course_to_remove == find(load_courses(f), code) IN
         IF course_to_remove # <<>>
         THEN remove_course_success(code, course_to_remove[1])
         ELSE not_found("remove", code)

\* remove_course_file, were the filtered list never written back.
remove_course_file_unsaved(f, code) == f

remove_course_file(f, code) ==
    IF ParseError(f) \/ find(load_courses(f), code) = <<>>
    THEN f
    ELSE json_dump(remove_filter(load_courses(f), code))

\* The add would take the catalog past the bound of the model.
AtBound(f, form) ==
    /\ missing_fields(form) = <<>>
    /\ ~ParseError(f)
    /\ Len(load_courses(f)) >= MaxCourses

(***************************************************************************)
(* The handlers, each run to completion on file and resp.                  *)
(***************************************************************************)
Handle_index ==
    /\ resp' = index_response
    /\ file' = file

Handle_course_catalog ==
    /\ resp' = course_catalog_response(file)
    /\ file' = file

Handle_course_details(code) ==
    /\ resp' = course_details_response(file, code)
    /\ file' = file

Handle_add_course_get ==
    /\ resp' = add_course_form_response
    /\ file' = file

Handle_add_course_post(form) ==
    /\ ~AtBound(file, form)
    /\ resp' = add_course_response(file, form)
    /\ file' = add_course_file(file, form)

Handle_remove_course(code) ==
    /\ resp' = remove_course_response(file, code)
    /\ file' = remove_course_file(file, code)

(***************************************************************************)
(* Spec: requests served one at a time.                                    *)
(***************************************************************************)
E2EStart == [step |-> 0, form |-> EmptyForm]

NoThreads ==
    /\ pc = <<>>
    /\ req = <<>>
    /\ locals = <<>>
    /\ out = <<>>
    /\ overlap = FALSE

\* The file is absent until the first add, or was left unparsable by an
\* edit made outside the program.
Init ==
    /\ file \in {MissingFile} \cup {Garbage(t) : t \in CorruptTexts}
    /\ resp = NoResponse
    /\ e2e = E2EStart
    /\ NoThreads

threadVars == <<pc, req, locals, out, overlap>>

index == Handle_index /\ UNCHANGED <<e2e, threadVars>>

course_catalog == Handle_course_catalog /\ UNCHANGED <<e2e, threadVars>>

course_details ==
    \E code \in Codes : Handle_course_details(code) /\ UNCHANGED <<e2e, threadVars>>

add_course_get == Handle_add_course_get /\ UNCHANGED <<e2e, threadVars>>

add_course_post ==
    \E form \in Forms : Handle_add_course_post(form) /\ UNCHANGED <<e2e, threadVars>>

remove_course ==
    \E code \in Codes : Handle_remove_course(code) /\ UNCHANGED <<e2e, threadVars>>

Next ==
    \/ index
    \/ course_catalog
    \/ course_details
    \/ add_course_get
    \/ add_course_post
    \/ remove_course

Spec == Init /\ [][Next]_vars

(***************************************************************************)
(* SpecE2E: one client posts a complete form, lists the catalog, removes   *)
(* the code it added, lists the catalog again and views the code.          *)
(***************************************************************************)
Complete(form) ==
    \A k \in {"name", "code", "instructor"} : form[k] \notin {<<>>, <<"">>}

StoredRecords == {course_data(form) : form \in {g \in Forms : Complete(g)}}

RECURSIVE ListsUpTo(_)
ListsUpTo(n) ==
    IF n = 0 THEN {<<>>}
    ELSE LET shorter == ListsUpTo(n - 1) IN
         shorter \cup {Append(l, r) : l \in shorter, r \in StoredRecords}

\* The files a run of adds and removes can leave, with room for one add.
StartFiles == {MissingFile} \cup {json_dump(l) : l \in ListsUpTo(MaxCourses - 1)}

InitE2E ==
    /\ file \in StartFiles
    /\ resp = NoResponse
    /\ e2e = E2EStart
    /\ NoThreads

E2EAdd ==
    /\ e2e.step = 0
    /\ \E form \in Forms :
        /\ Complete(form)
        /\ Handle_add_course_post(form)
        /\ e2e' = [step |-> 1, form |-> form]
    /\ UNCHANGED threadVars

E2ECatalog ==
    /\ e2e.step \in {1, 3}
    /\ Handle_course_catalog
    /\ e2e' = [e2e EXCEPT !.step = @ + 1]
    /\ UNCHANGED threadVars

E2ERemove ==
    /\ e2e.step = 2
    /\ Handle_remove_course(e2e.form.code[1])
    /\ e2e' = [e2e EXCEPT !.step = 3]
    /\ UNCHANGED threadVars

E2EDetails ==
    /\ e2e.step = 4
    /\ Handle_course_details(e2e.form.code[1])
    /\ e2e' = [e2e EXCEPT !.step = 5]
    /\ UNCHANGED threadVars

NextE2E == E2EAdd \/ E2ECatalog \/ E2ERemove \/ E2EDetails

SpecE2E == InitE2E /\ [][NextE2E]_vars

(***************************************************************************)
(* SpecConc: two request threads, each serving one mutating request (a     *)
(* complete POST /add or a POST /remove).  A thread reads the file in one  *)
(* step, truncates it when it opens it for writing, and writes its text    *)
(* when json.dump's output is flushed at the end of the `with` block.      *)
(***************************************************************************)
Threads == {1, 2}

NoRequest == [op |-> "none", code |-> "", form |-> EmptyForm]

NoLocals == [courses |-> <<>>, course_to_remove |-> <<>>]

Requests ==
    {[op |-> "add", code |-> "", form |-> form] :
        form \in {g \in Forms : Complete(g)}}
    \cup {[op |-> "remove", code |-> c, form |-> EmptyForm] : c \in Codes}

InitConc ==
    /\ file \in StartFiles
    /\ resp = NoResponse
    /\ e2e = E2EStart
    /\ pc = [t \in Threads |-> "idle"]
    /\ req = [t \in Threads |-> NoRequest]
    /\ locals = [t \in Threads |-> NoLocals]
    /\ out = [t \in Threads |-> NoResponse]
    /\ overlap = FALSE

\* The request reaches its handler.
Begin(t) ==
    /\ pc[t] = "idle"
    /\ \E r \in Requests : req' = [req EXCEPT ![t] = r]
    /\ pc' = [pc EXCEPT ![t] = "load"]
    /\ UNCHANGED <<file, resp, e2e, locals, out, overlap>>

\* The handler's locals once load_courses has returned and the list to be
\* written has been built.
loaded(r, f) ==
    IF r.op = "add"
    THEN [courses |-> AppendCourse(load_courses(f), course_data(r.form)),
          course_to_remove |-> <<>>]
    ELSE LET course_to_remove == find(load_courses(f), r.code) IN
         [courses |-> IF course_to_remove # <<>>
                      THEN remove_filter(load_courses(f), r.code)
                      ELSE load_courses(f),
          course_to_remove |-> course_to_remove]

\* load_courses(), then the code up to the open for writing.
Load(t) ==
    /\ pc[t] = "load"
    /\ overlap' = (overlap \/ \E u \in Threads \ {t} : pc[u] \in {"open", "dump"})
    /\ IF ParseError(file)
       THEN /\ out' = [out EXCEPT ![t] = Unhandled(req[t].op, req[t].code, req[t].form)]
            /\ pc' = [pc EXCEPT ![t] = "done"]
            /\ UNCHANGED locals
       ELSE /\ locals' = [locals EXCEPT ![t] = loaded(req[t], file)]
            /\ IF req[t].op = "remove" /\ find(load_courses(file), req[t].code) = <<>>
               THEN /\ out' = [out EXCEPT ![t] = not_found("remove", req[t].code)]
                    /\ pc' = [pc EXCEPT ![t] = "done"]
               ELSE /\ pc' = [pc EXCEPT ![t] = "open"]
                    /\ UNCHANGED out
    /\ UNCHANGED <<file, resp, e2e, req>>

\* open(COURSE_FILE, 'w') truncates the file.
Open(t) ==
    /\ pc[t] = "open"
    /\ file' = Garbage("")
    /\ pc' = [pc EXCEPT ![t] = "dump"]
    /\ UNCHANGED <<resp, e2e, req, locals, out, overlap>>

\* The text is written from the start of the file.  On the file as this
\* thread truncated it the text is all there is; over text another thread
\* wrote since, a longer old text keeps its tail and the result is no JSON.
written(f, list) ==
    IF f = Garbage("")
    THEN {json_dump(list)}
    ELSE {json_dump(list), Garbage("mixed")}

finished(r, l) ==
    IF r.op = "add"
    THEN add_course_success(r.form)
    ELSE remove_course_success(r.code, l.course_to_remove[1])

\* json.dump and the close of the file, then the success flash.
Dump(t) ==
    /\ pc[t] = "dump"
    /\ file' \in written(file, locals[t].courses)
    /\ out' = [out EXCEPT ![t] = finished(req[t], locals[t])]
    /\ pc' = [pc EXCEPT ![t] = "done"]
    /\ UNCHANGED <<resp, e2e, req, locals, overlap>>

NextConc == \E t \in Threads : Begin(t) \/ Load(t) \/ Open(t) \/ Dump(t)

SpecConc == InitConc /\ [][NextConc]_vars

(***************************************************************************)
(* What the catalog contracts say, stated apart from the handler code.     *)
(***************************************************************************)
\* The sequence of records a file holds (none when there is no file).
Catalog(f) == IF f.kind = "json" THEN f.data ELSE <<>>

HasCode(list, code) == \E i \in 1..Len(list) : list[i].code = code

RECURSIVE FirstWith(_, _)
FirstWith(list, code) ==
    IF list = <<>> THEN <<>>
    ELSE IF Head(list).code = code THEN <<Head(list)>>
         ELSE FirstWith(Tail(list), code)

RECURSIVE Without(_, _)
Without(list, code) ==
    IF list = <<>> THEN <<>>
    ELSE IF Head(list).code = code THEN Without(Tail(list), code)
         ELSE <<Head(list)>> \o Without(Tail(list), code)

OrDefault(v, default) == IF v = <<>> THEN default ELSE v[1]

\* The record a form stands for, omitted optional fields at their defaults.
RecordOf(form) ==
    [name |-> form.name[1], code |-> form.code[1],
     instructor |-> form.instructor[1],
     semester |-> OrDefault(form.semester, ""),
     schedule |-> OrDefault(form.schedule, ""),
     classroom |-> OrDefault(form.classroom, ""),
     prerequisites |-> OrDefault(form.prerequisites, "None"),
     grading |-> OrDefault(form.grading, "Not specified"),
     description |-> OrDefault(form.description, "No description provided")]

Required == {"name", "code", "instructor"}

Label(field) ==
    CASE field = "name" -> "Course Name"
      [] field = "code" -> "Course Code"
      [] field = "instructor" -> "Instructor"

\* Required fields the request left out or sent empty.
EmptyOrAbsent(form) == {k \in Required : form[k] \in {<<>>, <<"">>}}

Range(seq) == {seq[i] : i \in 1..Len(seq)}

Added == resp.op = "add" /\ resp.flash.cat = "success"

AddedNext == resp'.op = "add" /\ resp'.flash.cat = "success"

NotFoundRedirect(r) ==
    /\ r.status = "redirect"
    /\ r.target = "course_catalog"
    /\ r.flash.cat = "error"
    /\ r.flash.msg = "No course found with code"

\* C1: a remove of code c on a readable catalog leaves the file holding the
\* prior catalog without every record of code c, the others in their prior
\* order, and reports success exactly when the prior catalog held a record
\* of code c; otherwise it reports not-found and leaves the file as it was.
C1_RemoveFiltersAllMatches ==
    [][\A c \in Codes :
        (resp'.op = "remove" /\ resp'.code = c /\ file.kind # "garbage") =>
            IF HasCode(Catalog(file), c)
            THEN /\ file'.kind = "json"
                 /\ file'.data = Without(Catalog(file), c)
                 /\ resp'.flash.cat = "success"
            ELSE /\ file' = file
                 /\ NotFoundRedirect(resp')]_vars

\* A remove succeeded and left other records behind.
C1_Witness ==
    /\ resp.op = "remove"
    /\ resp.flash.cat = "success"
    /\ Len(Catalog(file)) > 0
    /\ ~HasCode(Catalog(file), resp.code)

\* C2: a successful add of form r, from any readable catalog or from no
\* file at all, leaves a file that loads as the prior sequence followed by
\* one record: r with the declared defaults in its omitted optional fields.
C2_AppendThenLoad ==
    [][(AddedNext /\ file.kind # "garbage") =>
        /\ file'.kind = "json"
        /\ load_courses(file') = Append(Catalog(file), RecordOf(resp'.form))]_vars

\* A record with defaulted fields was appended after an existing one.
C2_Witness ==
    /\ Added
    /\ resp.form.prerequisites = <<>>
    /\ Len(Catalog(file)) = 2
    /\ Catalog(file)[2].prerequisites = "None"
    /\ Catalog(file)[2].description = "No description provided"
    /\ Catalog(file)[2].semester = ""

\* C3 as claimed: after any successful add of r, viewing r.code shows r, and
\* viewing a code no record carries is answered not-found.
C3_FindReturnsAppended ==
    /\ Added =>
        LET view == course_details_response(file, resp.form.code[1]) IN
        view.status = "page" /\ view.body = <<RecordOf(resp.form)>>
    /\ \A c \in Codes :
        (file.kind # "garbage" /\ ~HasCode(Catalog(file), c)) =>
            NotFoundRedirect(course_details_response(file, c))

\* C3 amended: after a successful add of r, viewing r.code shows r when no
\* earlier record carries r.code, and otherwise shows the earliest record
\* that does; viewing a code no record carries is answered not-found.
C3_FindAfterAppend ==
    [][/\ (AddedNext /\ file.kind # "garbage") =>
            LET c == resp'.form.code[1]
                view == course_details_response(file', c) IN
            /\ view.status = "page"
            /\ view.body = IF HasCode(Catalog(file), c)
                           THEN FirstWith(Catalog(file), c)
                           ELSE <<RecordOf(resp'.form)>>
       /\ \A c \in Codes :
            (file'.kind # "garbage" /\ ~HasCode(Catalog(file'), c)) =>
                NotFoundRedirect(course_details_response(file', c))]_vars

\* A second record of an existing code was appended, and differs from the first.
C3_Witness ==
    /\ Added
    /\ Len(Catalog(file)) = 2
    /\ Catalog(file)[1].code = Catalog(file)[2].code
    /\ Catalog(file)[1] # Catalog(file)[2]
    /\ Catalog(file)[2] = RecordOf(resp.form)

\* C4: view details answers with the first stored record of the code, and
\* with not-found exactly when no record has it; remove names that same
\* first record in its success message; view details leaves the file alone.
C4_FindFirstMatch ==
    [][/\ (resp'.op = "details" /\ file.kind # "garbage") =>
            /\ file' = file
            /\ IF HasCode(Catalog(file), resp'.code)
               THEN /\ resp'.status = "page"
                    /\ resp'.body = FirstWith(Catalog(file), resp'.code)
               ELSE NotFoundRedirect(resp')
       /\ (resp'.op = "remove" /\ file.kind # "garbage") =>
            IF HasCode(Catalog(file), resp'.code)
            THEN resp'.flash.args = <<FirstWith(Catalog(file), resp'.code)[1].name>>
            ELSE NotFoundRedirect(resp')]_vars

\* View details found the first of two records of one code.
C4_Witness ==
    /\ resp.op = "details"
    /\ resp.status = "page"
    /\ Len(Catalog(file)) = 2
    /\ Catalog(file)[1].code = Catalog(file)[2].code
    /\ Catalog(file)[1] # Catalog(file)[2]
    /\ resp.body = <<Catalog(file)[1]>>

\* C5: a POST /add with a required field empty or absent is answered with
\* one error message naming exactly the missing required fields, each once,
\* and redirects to the form; the file is left as it was.
C5_ValidationFailure ==
    [][(resp'.op = "add" /\ EmptyOrAbsent(resp'.form) # {}) =>
        /\ file' = file
        /\ resp'.status = "redirect"
        /\ resp'.target = "add_course"
        /\ resp'.flash.cat = "error"
        /\ Range(resp'.flash.args) = {Label(k) : k \in EmptyOrAbsent(resp'.form)}
        /\ Len(resp'.flash.args) = Cardinality(EmptyOrAbsent(resp'.form))]_vars

\* Two required fields were missing from a POST made on an existing catalog.
C5_Witness ==
    /\ resp.op = "add"
    /\ resp.flash.cat = "error"
    /\ resp.flash.args = <<"Course Name", "Instructor">>
    /\ Len(Catalog(file)) > 0

WhitespaceOnly(v) == v = <<" ">>

\* C6: a POST /add with a required field of whitespace only is rejected as a
\* validation failure and appends no record.
C6_WhitespaceRejected ==
    [][(resp'.op = "add"
          /\ \E k \in Required : WhitespaceOnly(resp'.form[k])) =>
        /\ resp'.flash.cat = "error"
        /\ resp'.target = "add_course"
        /\ file' = file]_vars

\* C9: on a file that exists and does not parse, list catalog, view
\* details, POST /add with the required fields present and remove all end
\* in the unhandled parse error, with no flash, the file left as it was.
C9_ParseErrorPropagates ==
    [][(/\ file.kind = "garbage"
        /\ \/ resp'.op \in {"catalog", "details", "remove"}
           \/ resp'.op = "add" /\ EmptyOrAbsent(resp'.form) = {}) =>
        /\ resp'.status = "error500"
        /\ resp'.flash = NoFlash
        /\ file' = file]_vars

\* A complete POST /add met an unparsable, non-empty file.
C9_Witness ==
    /\ file = Garbage("{oops")
    /\ resp.op = "add"
    /\ EmptyOrAbsent(resp.form) = {}
    /\ resp.status = "error500"

\* C10: a handler that ends in a validation failure or a failed lookup has
\* marked its span failed; a handler that succeeds has not.
C10_SpanMarkedOnFailure ==
    /\ (resp.op = "add" /\ resp.flash.cat = "error") => resp.span = "ERROR"
    /\ (resp.op \in {"details", "remove"} /\ resp.flash.cat = "error") =>
            resp.span = "ERROR"
    /\ (resp.status \in {"page", "redirect"} /\ resp.flash.cat # "error") =>
            resp.span # "ERROR"

\* C7: in the client's run from any starting catalog, the catalog page that
\* follows the add lists the new course, the catalog page that follows the
\* remove of its code lists no course of that code, and viewing the code
\* then redirects to the list with the not-found error flash.
C7_EndToEnd ==
    LET c == e2e.form.code[1] IN
    /\ e2e.step = 2 =>
        /\ resp.op = "catalog"
        /\ resp.status = "page"
        /\ \E i \in 1..Len(resp.body) : resp.body[i] = RecordOf(e2e.form)
    /\ e2e.step = 4 =>
        /\ resp.op = "catalog"
        /\ resp.status = "page"
        /\ ~HasCode(resp.body, c)
    /\ e2e.step = 5 =>
        /\ resp.op = "details"
        /\ resp.code = c
        /\ NotFoundRedirect(resp)
        /\ resp.flash.args = <<c>>

\* The client finished its run on a catalog that still holds another course.
C7_Witness ==
    /\ e2e.step = 5
    /\ resp.op = "details"
    /\ Len(Catalog(file)) > 0

\* What a request does to a catalog when nothing runs beside it.
Effect(r, list) ==
    IF r.op = "add"
    THEN Append(list, RecordOf(r.form))
    ELSE Without(list, r.code)

BothSucceeded ==
    \A t \in Threads : pc[t] = "done" /\ out[t].flash.cat = "success"

\* One request worked on what the other had written, and its own write is
\* what the file holds.
NothingLost ==
    \E t \in Threads : \E u \in Threads \ {t} :
        /\ locals[u].courses = Effect(req[u], locals[t].courses)
        /\ file = json_dump(locals[u].courses)

\* C8: when neither request read the file while the other was between its
\* read and its write, two requests that both report success leave a file
\* holding the effect of both; a lost update needs the interleaving (the
\* witness is one: both report success and one effect is missing).
C8_NoLossWithoutInterleaving ==
    (BothSucceeded /\ ~overlap) => NothingLost

\* An add and a remove both reported success, and the file lacks one effect.
C8_Witness ==
    /\ BothSucceeded
    /\ overlap
    /\ file.kind = "json"
    /\ req[1].op = "add"
    /\ req[2].op = "remove"
    /\ ~NothingLost
    /\ \/ ~(\E i \in 1..Len(file.data) : file.data[i] = RecordOf(req[1].form))
       \/ HasCode(file.data, req[2].code)

====
